---- MODULE Spec2Model ----
(***************************************************************************)
(* A model of the hyperloop compile command (lib/hyperloop.js): the static *)
(* evaluator of marker arguments (toValue, makeArrayFromArg,               *)
(* makeDictionaryFromArg, evalExpression), the TreeTransformer visitor     *)
(* that rewrites markers, constructor calls and function calls, and the    *)
(* per-file driver with its source cache and the codegen backend calls.    *)
(***************************************************************************)
EXTENDS Integers, Sequences, FiniteSets, TLC

\* Bounds of the model.
MaxFiles == 2
MaxStmts == 2

----------------------------------------------------------------------------
(* JavaScript values.  Every value is a tagged record.                      *)

Undefined == [t |-> "undefined"]
Null == [t |-> "null"]
NaN == [t |-> "NaN"]
Num(n) == [t |-> "number", n |-> n]
Str(s) == [t |-> "string", s |-> s]
Bool(b) == [t |-> "boolean", b |-> b]
\* a JS array; a is the sequence of its elements
Arr(a) == [t |-> "array", a |-> a]
\* a JS object; o is the sequence of its [key, val] pairs in insertion order
Obj(o) == [t |-> "object", o |-> o]
\* an AST node object standing where a value was expected
NodeVal(n) == [t |-> "node", node |-> n]
\* a thrown exception: its constructor, its message kind and the name it cites
Throw(e, m, n) == [t |-> "throw", error |-> e, message |-> m, name |-> n]

IsThrow(v) == v.t = "throw"

\* JS truthiness of a value
Truthy(v) ==
    CASE v.t = "undefined" -> FALSE
      [] v.t = "null" -> FALSE
      [] v.t = "NaN" -> FALSE
      [] v.t = "number" -> v.n # 0
      [] v.t = "string" -> v.s # ""
      [] v.t = "boolean" -> v.b
      [] OTHER -> TRUE

\* obj[key] = val on a JS object: an existing key keeps its place
ObjSet(o, key, val) ==
    IF \E i \in 1..Len(o) : o[i].key = key
    THEN [i \in 1..Len(o) |-> IF o[i].key = key THEN [key |-> key, val |-> val] ELSE o[i]]
    ELSE Append(o, [key |-> key, val |-> val])

\* String(v), as the + operator applies it
JsToString(v) ==
    CASE v.t = "undefined" -> "undefined"
      [] v.t = "null" -> "null"
      [] v.t = "NaN" -> "NaN"
      [] v.t = "number" -> ToString(v.n)
      [] v.t = "string" -> v.s
      [] v.t = "boolean" -> IF v.b THEN "true" ELSE "false"
      [] OTHER -> "[object]"

\* Number(v): NaN where the value is no number
JsToNumber(v) ==
    CASE v.t = "number" -> v
      [] v.t = "null" -> Num(0)
      [] v.t = "boolean" -> IF v.b THEN Num(1) ELSE Num(0)
      [] v.t = "string" -> IF v.s = "" THEN Num(0) ELSE NaN
      [] OTHER -> NaN

\* l operator r under the runtime's semantics, for the operators + and -
JsBinary(operator, l, r) ==
    IF operator = "+" /\ (l.t \in {"string", "array", "object", "node"} \/ r.t \in {"string", "array", "object", "node"})
    THEN Str(JsToString(l) \o JsToString(r))
    ELSE LET a == JsToNumber(l)
             b == JsToNumber(r)
         IN IF a.t = "NaN" \/ b.t = "NaN" THEN NaN
            ELSE IF operator = "+" THEN Num(a.n + b.n) ELSE Num(a.n - b.n)

----------------------------------------------------------------------------
(* AST nodes and lexical scopes, as the parser hands them over.             *)

Has(node, p) == p \in DOMAIN node

\* no node: a null or undefined reference
NoNode == [TYPE |-> "none"]
NoScope == [TYPE |-> "noscope"]

StringNode(s) == [TYPE |-> "String", value |-> Str(s)]
NumberNode(n) == [TYPE |-> "Number", value |-> Num(n)]
TrueNode == [TYPE |-> "True", value |-> Bool(TRUE)]
FalseNode == [TYPE |-> "False", value |-> Bool(FALSE)]
NullNode == [TYPE |-> "Null", value |-> Null]
ArrayNode(es) == [TYPE |-> "Array", elements |-> es]
KeyVal(k, v) == [TYPE |-> "ObjectKeyVal", key |-> k, value |-> v]
ObjectNode(ps) == [TYPE |-> "Object", properties |-> ps]
BinaryNode(l, op, r) == [TYPE |-> "Binary", left |-> l, operator |-> op, right |-> r]
SymbolRef(n, sc) == [TYPE |-> "SymbolRef", name |-> n, scope |-> sc]

\* a scope: its own variables (name and initializer) and the enclosing scope
Scope(vars, parent) == [variables |-> vars, parent_scope |-> parent]
SymbolDef(n, init) == [name |-> n, init |-> init]
NotFound == [name |-> "", init |-> NoNode]

RECURSIVE find_variable(_, _)
\* scope.find_variable(name): the innermost definition along the scope chain
find_variable(scope, name) ==
    IF scope = NoScope THEN NotFound
    ELSE IF \E i \in 1..Len(scope.variables) : scope.variables[i].name = name
         THEN scope.variables[CHOOSE i \in 1..Len(scope.variables) : scope.variables[i].name = name]
         ELSE find_variable(scope.parent_scope, name)

RECURSIVE print_to_string(_)
RECURSIVE PrintList(_, _)
\* the texts of the nodes of a list, joined by a comma
PrintList(nodes, i) ==
    IF i > Len(nodes) THEN ""
    ELSE print_to_string(nodes[i]) \o (IF i < Len(nodes) THEN "," ELSE "") \o PrintList(nodes, i + 1)

\* node.print_to_string(): the node as source text
print_to_string(node) ==
    CASE node.TYPE = "String" -> "\"" \o node.value.s \o "\""
      [] node.TYPE = "Number" -> ToString(node.value.n)
      [] node.TYPE = "True" -> "true"
      [] node.TYPE = "False" -> "false"
      [] node.TYPE = "Null" -> "null"
      [] node.TYPE \in {"SymbolRef", "SymbolConst"} -> node.name
      [] node.TYPE = "Array" -> "[" \o PrintList(node.elements, 1) \o "]"
      [] node.TYPE = "ObjectKeyVal" -> node.key \o ":" \o print_to_string(node.value)
      [] node.TYPE = "Object" -> "{" \o PrintList(node.properties, 1) \o "}"
      [] node.TYPE = "Binary" -> print_to_string(node.left) \o node.operator \o print_to_string(node.right)
      [] node.TYPE = "Assign" -> print_to_string(node.left) \o node.operator \o print_to_string(node.right)
      [] node.TYPE = "Call" -> print_to_string(node.expression) \o "(" \o PrintList(node.args, 1) \o ")"
      [] node.TYPE = "New" -> "new " \o print_to_string(node.expression) \o "(" \o PrintList(node.args, 1) \o ")"
      [] node.TYPE = "SimpleStatement" -> print_to_string(node.body) \o ";"
      [] node.TYPE = "EmptyStatement" -> ";"
      [] OTHER -> ""

----------------------------------------------------------------------------
(* The static evaluator.                                                    *)

\* makeArrayFromArg: the value property of each element, whatever its kind
makeArrayFromArg(arg) ==
    Arr([i \in 1..Len(arg.elements) |->
            IF Has(arg.elements[i], "value") THEN arg.elements[i].value ELSE Undefined])

\* the last character of a name: what /(\w) is not defined/ captures
LastChar(name) == SubSeq(name, Len(name), Len(name))

\* the operand text evaluated inside the generated function: a literal is its
\* value, an identifier is the parameter of that name or a ReferenceError
EvalOperand(operand, scope) ==
    IF operand.TYPE = "SymbolRef"
    THEN IF \E i \in 1..Len(scope) : scope[i].key = operand.name
         THEN scope[CHOOSE i \in 1..Len(scope) : scope[i].key = operand.name].val
         ELSE Throw("ReferenceError", "is not defined", operand.name)
    ELSE operand.value

RECURSIVE ExpandScope(_, _, _)
\* for (var k in vars): scope[k] = vars[k].init.value
ExpandScope(vars, i, scope) ==
    IF i > Len(vars) THEN Obj(scope)
    ELSE IF vars[i].init = NoNode THEN Throw("TypeError", "Cannot read property", "value")
    ELSE ExpandScope(vars, i + 1,
            ObjSet(scope, vars[i].name,
                   IF Has(vars[i].init, "value") THEN vars[i].init.value ELSE Undefined))

\* evalExpression(node, arg)
evalExpression(node, arg) ==
    IF ~Has(node, "expression") THEN Throw("TypeError", "Cannot read property", "scope")
    ELSE IF ~Has(node.expression, "scope") /\ ~Has(node.expression, "expression")
    THEN Throw("TypeError", "Cannot read property", "scope")
    ELSE LET vars == IF Has(node.expression, "scope")
                     THEN node.expression.scope.variables
                     ELSE node.expression.expression.scope.variables
             scope == ExpandScope(vars, 1, <<>>)
         IN IF IsThrow(scope) THEN scope
            ELSE LET l == EvalOperand(arg.left, scope.o)
                     r == EvalOperand(arg.right, scope.o)
                     E == IF IsThrow(l) THEN l ELSE r
                 IN IF IsThrow(E)
                    THEN Throw("Error", "can't seem to determine value of", LastChar(E.name))
                    ELSE JsBinary(arg.operator, l, r)

RECURSIVE toValue(_, _)
RECURSIVE DictionaryFrom(_, _, _, _)
\* arg.properties.forEach: obj[p.key] = toValue(p.value, node)
DictionaryFrom(properties, node, i, obj) ==
    IF i > Len(properties) THEN Obj(obj)
    ELSE LET v == toValue(properties[i].value, node)
         IN IF IsThrow(v) THEN v
            ELSE DictionaryFrom(properties, node, i + 1, ObjSet(obj, properties[i].key, v))

\* makeDictionaryFromArg(arg, node)
makeDictionaryFromArg(arg, node) ==
    IF ~Has(arg, "properties") THEN Throw("TypeError", "Cannot call method", "forEach")
    ELSE DictionaryFrom(arg.properties, node, 1, <<>>)

\* toValue(value, node)
toValue(value, node) ==
    IF value = NoNode THEN Null
    ELSE IF Has(value, "elements") THEN makeArrayFromArg(value)
    ELSE IF Has(value, "properties") THEN makeDictionaryFromArg(value, node)
    ELSE IF Has(value, "value") /\ Truthy(value.value) THEN value.value
    ELSE IF Has(value, "name") /\ value.name # ""
    THEN LET v == find_variable(value.scope, value.name)
         IN IF v = NotFound
            THEN Throw("Error", "Couldn't find variable named", value.name)
            ELSE toValue(v.init, node)
    ELSE IF Has(value, "left") /\ Has(value, "right") /\ Has(value, "operator")
    THEN evalExpression(node, value)
    ELSE NodeVal(value)

----------------------------------------------------------------------------
(* The SourceFile of a platform (lib/<platform>/sourcefile.js): the unit of *)
(* one input file and the declarations the rewriter records in it.          *)

\* new SourceFile(filename, name)
SourceFile(filename, name) ==
    [filename |-> filename, name |-> name,
     packageDecl |-> <<>>, classDecls |-> <<>>, staticDecls |-> <<>>,
     nativeDecls |-> <<>>, importDecls |-> <<>>,
     instantiations |-> <<>>, callSites |-> <<>>,
     cached |-> FALSE, finished |-> FALSE]

NoUnit == [TYPE |-> "none"]

processPackage(sf, node, value) == [sf EXCEPT !.packageDecl = <<value>>]
processClass(sf, node, value) == [sf EXCEPT !.classDecls = Append(@, value)]
processStatic(sf, node, value) == [sf EXCEPT !.staticDecls = Append(@, value)]
processNative(sf, node, obj) == [sf EXCEPT !.nativeDecls = Append(@, obj)]
processImport(sf, node, value) == [sf EXCEPT !.importDecls = Append(@, value)]

\* the symbol generated for the next instantiation or call of the unit
NewSymbol(sf) == "sym" \o ToString(Len(sf.instantiations) + Len(sf.callSites) + 1)

\* processNewClass(node, name): records the instantiation; its symbol is NewSymbol
processNewClass(sf, node, name) ==
    [sf EXCEPT !.instantiations = Append(@, [symbol |-> NewSymbol(sf), name |-> name])]

\* processFunction(node, name, args): records the call; its symbol is NewSymbol
processFunction(sf, node, name, args) ==
    [sf EXCEPT !.callSites = Append(@, [symbol |-> NewSymbol(sf), name |-> name, args |-> args])]

\* sourcefile.finish(source)
finish(sf) == [sf EXCEPT !.finished = TRUE]

\* new SourceFile(filename, name).fromJSON(json)
fromJSON(filename, name, json) == [json EXCEPT !.filename = filename, !.name = name, !.cached = FALSE]

----------------------------------------------------------------------------
(* The TreeTransformer of the compile command.                              *)

\* whether word occurs in name
Contains(name, word) ==
    \E i \in 1..(Len(name) - Len(word) + 1) : SubSeq(name, i, i + Len(word) - 1) = word

\* RESERVED_SYMBOLS.test(name) for /(static|native|class|package|import)/
RESERVED_SYMBOLS(name) ==
    \E word \in {"static", "native", "class", "package", "import"} : Contains(name, word)

\* the name property of a node, as a regular expression or a switch reads it
NameOf(node) == IF Has(node, "name") THEN node.name ELSE "undefined"

EmptyStatement == [TYPE |-> "EmptyStatement"]
SymbolConst(n) == [TYPE |-> "SymbolConst", name |-> n]

\* the outcome of a visit: the node that stands in the tree and the unit as
\* left by the visit, or the exception thrown
Done(node, sf) == [ok |-> TRUE, node |-> node, sf |-> sf, error |-> Undefined]
Thrown(E, sf) == [ok |-> FALSE, node |-> NoNode, sf |-> sf, error |-> E]

\* a marker statement: record the evaluated argument, put an empty statement
Marker(value, sf, recorded) ==
    IF IsThrow(value) THEN Thrown(value, sf) ELSE Done(EmptyStatement, recorded)

RECURSIVE Texts(_, _)
\* node.args.forEach: args.push(arg.print_to_string())
Texts(args, i) ==
    IF i > Len(args) THEN <<>> ELSE <<print_to_string(args[i])>> \o Texts(args, i + 1)

RECURSIVE Join(_, _)
\* args.join(',')
Join(texts, i) ==
    IF i > Len(texts) THEN ""
    ELSE texts[i] \o (IF i < Len(texts) THEN "," ELSE "") \o Join(texts, i + 1)

\* the function given to the TreeTransformer, called on a node whose
\* children have been transformed
Visitor(node, sf) ==
    IF node.TYPE = "SimpleStatement"
    THEN IF /\ Has(node, "body")
            /\ Has(node.body, "expression")
            /\ RESERVED_SYMBOLS(NameOf(node.body.expression))
            /\ Has(node.body, "args")
            /\ Len(node.body.args) > 0
         THEN LET arg == node.body.args[1]
                  name == NameOf(node.body.expression)
              IN CASE name = "package" ->
                        LET v == toValue(arg, node) IN Marker(v, sf, processPackage(sf, node, v))
                   [] name = "class" ->
                        LET v == toValue(arg, node) IN Marker(v, sf, processClass(sf, node, v))
                   [] name = "static" ->
                        LET v == toValue(arg, node) IN Marker(v, sf, processStatic(sf, node, v))
                   [] name = "native" ->
                        LET obj == makeDictionaryFromArg(arg, node.body)
                        IN Marker(obj, sf, processNative(sf, node, obj))
                   [] name = "import" ->
                        LET v == toValue(arg, node) IN Marker(v, sf, processImport(sf, node, v))
                   [] OTHER -> Done(node, sf)
         ELSE Done(node, sf)
    ELSE IF node.TYPE = "New"
    THEN IF /\ Has(node, "expression")
            /\ Has(node.expression, "name")
            /\ find_variable(node.expression.scope, node.expression.name) = NotFound
         THEN Done(SymbolConst(NewSymbol(sf) \o "()"),
                   processNewClass(sf, node, node.expression.name))
         ELSE Done(node, sf)
    ELSE IF node.TYPE = "Call"
    THEN IF /\ Has(node, "expression")
            /\ Has(node.expression, "name")
            /\ ~RESERVED_SYMBOLS(node.expression.name)
            /\ find_variable(node.expression.scope, node.expression.name) = NotFound
         THEN LET args == Texts(node.args, 1)
              IN Done(SymbolConst(NewSymbol(sf) \o "(" \o Join(args, 1) \o ")"),
                      processFunction(sf, node, node.expression.name, args))
         ELSE Done(node, sf)
    ELSE Done(node, sf)

RECURSIVE transform(_, _)
RECURSIVE TransformList(_, _, _, _)
\* the nodes of a list transformed in order; the unit is threaded through
TransformList(nodes, i, out, sf) ==
    IF i > Len(nodes) THEN [ok |-> TRUE, nodes |-> out, sf |-> sf, error |-> Undefined]
    ELSE LET r == transform(nodes[i], sf)
         IN IF ~r.ok THEN [ok |-> FALSE, nodes |-> out, sf |-> r.sf, error |-> r.error]
            ELSE TransformList(nodes, i + 1, Append(out, r.node), r.sf)

\* node.transform(transformer) with no before function: the node's children
\* are transformed first, then the visitor is called on the node
transform(node, sf) ==
    CASE node.TYPE = "SimpleStatement" ->
            LET b == transform(node.body, sf)
            IN IF ~b.ok THEN b ELSE Visitor([node EXCEPT !.body = b.node], b.sf)
      [] node.TYPE \in {"Call", "New"} ->
            LET a == TransformList(node.args, 1, <<>>, sf)
            IN IF ~a.ok THEN Thrown(a.error, a.sf)
               ELSE Visitor([node EXCEPT !.args = a.nodes], a.sf)
      [] node.TYPE = "Assign" ->
            LET r == transform(node.right, sf)
            IN IF ~r.ok THEN r ELSE Visitor([node EXCEPT !.right = r.node], r.sf)
      [] OTHER -> Visitor(node, sf)

----------------------------------------------------------------------------
(* The state of one run of the compile command.                             *)

VARIABLES
    pc,             \* where the run stands: "loop", "transform", "generate", "exit(0)", "exit(1)", "eval"
    files,          \* the file listing: each file's path below src and its content
    force,          \* options.force
    artifacts,      \* the unit names whose generated artifacts are present under options.srcdir
    fileCache,      \* the cache table in memory: jsfilename -> entry
    persisted,      \* the content of .srccache.json
    writes,         \* how many times .srccache.json was written
    idx,            \* the index of the file the forEach is at
    units,          \* the SourceFile object created for each file, NoUnit before
    sources,        \* the units handed to codegen.addSource, by file index, in call order
    toplevel,       \* the toplevel scope of the file being transformed
    ast2,           \* the statements of the file being transformed, as rewritten so far
    nstmts,         \* how many statements the run has transformed
    last,           \* the statement the last transform step took and the unit before it
    error,          \* the exception given to log.error, Undefined if none
    generateCalls,  \* how many times codegen.generate was called
    report,         \* the (err, file) the backend gave the generate callback
    input,          \* an evaluator input: the value node and the node at hand
    output          \* the evaluator's result for input

vars == <<pc, files, force, artifacts, fileCache, persisted, writes, idx, units, sources,
          toplevel, ast2, nstmts, last, error, generateCalls, report, input, output>>

\* relativeFilename with a leading slash dropped (line 220)
RelativeFilename(filename) ==
    IF Len(filename) > 0 /\ SubSeq(filename, 1, 1) = "/"
    THEN SubSeq(filename, 2, Len(filename)) ELSE filename

RECURSIVE ReplaceInvalid(_, _)
\* .replace(/[\s-\/]/g, '_')
ReplaceInvalid(s, i) ==
    IF i > Len(s) THEN ""
    ELSE (IF SubSeq(s, i, i) \in {" ", "-", "/"} THEN "_" ELSE SubSeq(s, i, i))
         \o ReplaceInvalid(s, i + 1)

\* jsfilename: invalid characters replaced, then a final .js dropped (line 221)
jsfilename(relativeFilename) ==
    LET r == ReplaceInvalid(relativeFilename, 1)
    IN IF Len(r) >= 3 /\ SubSeq(r, Len(r) - 2, Len(r)) = ".js"
       THEN SubSeq(r, 1, Len(r) - 3) ELSE r

\* crypto.createHash('md5').update(source).digest('hex')
sourceHash(source) == "md5(" \o source \o ")"

NoEntry == [TYPE |-> "none"]
CacheEntry(hash, sf) == [sourceHash |-> hash, sourcefile |-> sf]

\* sf.isCacheable(options.srcdir)
isCacheable(sf) == sf.name \in artifacts

\* the paths of the listing, as left once path.resolve(src) is cut off
Paths == {"/a.js", "/a-b.js", "/a_b.js"}
Contents == {"s1", "s2"}
Names == {jsfilename(RelativeFilename(p)) : p \in Paths}

\* the unit a previous run stored for a name
StoredUnit(name) ==
    finish(processImport(SourceFile(name \o ".js", name), NoNode, Str("a")))

\* file listings of n files with distinct paths
RECURSIVE Listings(_)
Listings(n) ==
    IF n = 0 THEN {<<>>}
    ELSE {Append(l, [filename |-> p, source |-> c]) :
            l \in Listings(n - 1), p \in Paths, c \in Contents}

Distinct(l) == \A i, j \in 1..Len(l) : i # j => l[i].filename # l[j].filename

\* the tables a previous run over content s1 may have left in .srccache.json
StoredCaches ==
    {[n \in Names |-> IF n \in S THEN CacheEntry(sourceHash("s1"), StoredUnit(n)) ELSE NoEntry] :
        S \in SUBSET Names}

NoReport == [TYPE |-> "none"]
NoLast == [stmt |-> NoNode, before |-> NoUnit]
Pending == [t |-> "pending"]

\* the state once the cache table has been read (lines 207-212)
InitRun(listings, forces, caches, present) ==
    /\ pc = "loop"
    /\ files \in listings
    /\ force \in forces
    /\ artifacts \in present
    /\ fileCache \in caches
    /\ persisted = fileCache
    /\ writes = 0
    /\ idx = 1
    /\ units = [i \in 1..Len(files) |-> NoUnit]
    /\ sources = <<>>
    /\ toplevel = NoScope
    /\ ast2 = <<>>
    /\ nstmts = 0
    /\ last = NoLast
    /\ error = Undefined
    /\ generateCalls = 0
    /\ report = NoReport
    /\ input = [value |-> NoNode, node |-> NoNode]
    /\ output = Pending

Init ==
    InitRun({l \in UNION {Listings(n) : n \in 1..MaxFiles} : Distinct(l)},
            BOOLEAN,
            StoredCaches,
            SUBSET Names)

----------------------------------------------------------------------------
(* The statements a file may hold.                                          *)

Call(name, args, sc) == [TYPE |-> "Call", expression |-> SymbolRef(name, sc), args |-> args]
New(name, args, sc) == [TYPE |-> "New", expression |-> SymbolRef(name, sc), args |-> args]
Assign(name, right, sc) ==
    [TYPE |-> "Assign", left |-> SymbolRef(name, sc), operator |-> "=", right |-> right]
SimpleStatement(body) == [TYPE |-> "SimpleStatement", body |-> body]

\* a toplevel that declares nothing; one with var w = 10; one with
\* function native(){} function Foo(){} function bar(){}
Toplevel == Scope(<<>>, NoScope)
ToplevelW == Scope(<<SymbolDef("w", NumberNode(10))>>, NoScope)
ToplevelShadowing ==
    Scope(<<SymbolDef("native", NoNode), SymbolDef("Foo", NoNode), SymbolDef("bar", NoNode)>>, NoScope)
Toplevels == {Toplevel, ToplevelW, ToplevelShadowing}

\* the scope of a function of the file that declares var y = "s"
FunctionScope(top) == Scope(<<SymbolDef("y", StringNode("s"))>>, top)

MarkerNames == {"package", "class", "static", "native", "import"}

FooBar == ObjectNode(<<KeyVal("foo", StringNode("bar"))>>)
APlus(name, sc) == BinaryNode(StringNode("a"), "+", SymbolRef(name, sc))

\* the statements in scope sc
StmtsIn(sc) ==
    {SimpleStatement(Call(m, <<a>>, sc)) : m \in MarkerNames, a \in {StringNode("a"), FooBar}}
    \cup {SimpleStatement(Call(m, <<a>>, sc)) :
            m \in {"import", "native"},
            a \in {NumberNode(0), SymbolRef("w", sc), APlus("w", sc),
                   ObjectNode(<<KeyVal("foo", APlus("w", sc))>>),
                   ObjectNode(<<KeyVal("foo", APlus("width", sc))>>),
                   ArrayNode(<<StringNode("a"), SymbolRef("w", sc)>>)}}
    \cup {SimpleStatement(Call("native", <<>>, sc)),
          SimpleStatement(Call("import", <<StringNode("a"), StringNode("b")>>, sc)),
          SimpleStatement(Call("bar", <<BinaryNode(SymbolRef("x", sc), "+", NumberNode(1)), StringNode("s")>>, sc)),
          SimpleStatement(Call("bar", <<>>, sc)),
          SimpleStatement(Call("classify", <<NumberNode(1)>>, sc)),
          SimpleStatement(Call("bar", <<Call("foo", <<NumberNode(1)>>, sc)>>, sc)),
          SimpleStatement(Assign("y", Call("bar", <<NumberNode(1)>>, sc), sc)),
          SimpleStatement(New("Foo", <<>>, sc)),
          SimpleStatement(New("Foo", <<NumberNode(1)>>, sc)),
          SimpleStatement(Assign("y", New("Foo", <<Call("bar", <<NumberNode(1)>>, sc)>>, sc), sc)),
          SimpleStatement(New("native", <<FooBar>>, sc)),
          SimpleStatement(New("Foo", <<New("Foo", <<>>, sc)>>, sc))}

\* every statement of a file with toplevel scope top
Stmts(top) == StmtsIn(top) \cup StmtsIn(FunctionScope(top))

\* a few statements: two that evaluate, two whose evaluation throws when
\* nothing is declared, and a call
FewStmts(top) ==
    {SimpleStatement(Call("import", <<StringNode("a")>>, top)),
     SimpleStatement(Call("import", <<SymbolRef("w", top)>>, top)),
     SimpleStatement(Call("native", <<ObjectNode(<<KeyVal("foo", APlus("width", top))>>)>>, top)),
     SimpleStatement(Call("bar", <<NumberNode(1)>>, top))}

----------------------------------------------------------------------------
(* The steps of a run.                                                      *)

RelativeOf(i) == RelativeFilename(files[i].filename)
NameOfFile(i) == jsfilename(RelativeOf(i))
HashOf(i) == sourceHash(files[i].source)

\* the condition of line 226 alone: isCacheable is not asked
ReusableByHashAlone ==
    LET cachedFile == fileCache[NameOfFile(idx)]
    IN /\ ~force
       /\ cachedFile # NoEntry
       /\ cachedFile.sourceHash = HashOf(idx)

\* the condition of line 226 and line 228 on the file at idx
Reusable ==
    LET cachedFile == fileCache[NameOfFile(idx)]
    IN /\ ~force
       /\ cachedFile # NoEntry
       /\ cachedFile.sourceHash = HashOf(idx)
       /\ isCacheable(fromJSON(RelativeOf(idx), NameOfFile(idx), cachedFile.sourcefile))

\* the forEach callback on an unchanged file, returning before addSource
CacheHitWithoutAddSource ==
    /\ pc = "loop"
    /\ idx <= Len(files)
    /\ Reusable
    /\ LET sf == fromJSON(RelativeOf(idx), NameOfFile(idx), fileCache[NameOfFile(idx)].sourcefile)
       IN units' = [units EXCEPT ![idx] = [sf EXCEPT !.cached = TRUE]]
    /\ idx' = idx + 1
    /\ last' = NoLast
    /\ UNCHANGED <<pc, files, force, artifacts, fileCache, persisted, writes, sources, toplevel,
                   ast2, nstmts, error, generateCalls, report, input, output>>

\* the forEach callback on an unchanged file: the stored unit is handed over
CacheHit ==
    /\ pc = "loop"
    /\ idx <= Len(files)
    /\ Reusable
    /\ LET sf == fromJSON(RelativeOf(idx), NameOfFile(idx), fileCache[NameOfFile(idx)].sourcefile)
       IN units' = [units EXCEPT ![idx] = [sf EXCEPT !.cached = TRUE]]
    /\ sources' = Append(sources, idx)
    /\ idx' = idx + 1
    /\ last' = NoLast
    /\ UNCHANGED <<pc, files, force, artifacts, fileCache, persisted, writes, toplevel, ast2,
                   nstmts, error, generateCalls, report, input, output>>

\* the forEach callback otherwise, up to the transformer: the file is parsed,
\* its scopes figured out, and a fresh unit is handed to the backend
ParseOver(tops) ==
    /\ pc = "loop"
    /\ idx <= Len(files)
    /\ ~Reusable
    /\ toplevel' \in tops
    /\ units' = [units EXCEPT ![idx] = SourceFile(RelativeOf(idx), NameOfFile(idx))]
    /\ sources' = Append(sources, idx)
    /\ ast2' = <<>>
    /\ last' = NoLast
    /\ pc' = "transform"
    /\ UNCHANGED <<files, force, artifacts, fileCache, persisted, writes, idx, nstmts, error,
                   generateCalls, report, input, output>>

\* ast.transform(transformer) reaches the next statement of the file and
\* the visitor returns
TransformOver(stmts) ==
    /\ pc = "transform"
    /\ nstmts < MaxStmts
    /\ \E s \in stmts :
         LET r == transform(s, units[idx])
         IN /\ r.ok
            /\ units' = [units EXCEPT ![idx] = r.sf]
            /\ ast2' = Append(ast2, r.node)
            /\ last' = [stmt |-> s, before |-> units[idx]]
    /\ nstmts' = nstmts + 1
    /\ UNCHANGED <<pc, files, force, artifacts, fileCache, persisted, writes, idx, sources,
                   toplevel, error, generateCalls, report, input, output>>

\* log.error(...): the message is printed and the process exits with status 1
LogError(E) ==
    /\ error' = E
    /\ pc' = "exit(1)"

\* ast.transform(transformer) reaches a statement on which the visitor
\* throws: the catch of line 301 gives the exception to log.error
ThrowsOver(stmts) ==
    /\ pc = "transform"
    /\ nstmts < MaxStmts
    /\ \E s \in stmts :
         LET r == transform(s, units[idx])
         IN /\ ~r.ok
            /\ units' = [units EXCEPT ![idx] = r.sf]
            /\ last' = [stmt |-> s, before |-> units[idx]]
            /\ LogError(r.error)
    /\ nstmts' = nstmts + 1
    /\ UNCHANGED <<files, force, artifacts, fileCache, persisted, writes, idx, sources,
                   toplevel, ast2, generateCalls, report, input, output>>

\* a catch that reports the exception and lets the callback go on
SwallowsOver(stmts) ==
    /\ pc = "transform"
    /\ nstmts < MaxStmts
    /\ \E s \in stmts :
         LET r == transform(s, units[idx])
         IN /\ ~r.ok
            /\ units' = [units EXCEPT ![idx] = r.sf]
            /\ last' = [stmt |-> s, before |-> units[idx]]
            /\ error' = r.error
    /\ nstmts' = nstmts + 1
    /\ UNCHANGED <<pc, files, force, artifacts, fileCache, persisted, writes, idx, sources,
                   toplevel, ast2, generateCalls, report, input, output>>

Parse == ParseOver({Toplevel})
TransformStmt == TransformOver(FewStmts(toplevel))
TransformSwallows == SwallowsOver(FewStmts(toplevel))
TransformThrows == ThrowsOver(FewStmts(toplevel))

ParseAny == ParseOver(Toplevels)
RewriteStmt == TransformOver(Stmts(toplevel))
RewriteThrows == ThrowsOver(Stmts(toplevel))

\* the rest of the forEach callback once the transform has returned: the
\* output is printed, the unit finished and the cache entry recorded
Finish ==
    /\ pc = "transform"
    /\ units' = [units EXCEPT ![idx] = finish(units[idx])]
    /\ fileCache' = [fileCache EXCEPT ![NameOfFile(idx)] = CacheEntry(HashOf(idx), finish(units[idx]))]
    /\ idx' = idx + 1
    /\ last' = NoLast
    /\ pc' = "loop"
    /\ UNCHANGED <<files, force, artifacts, persisted, writes, sources, toplevel, ast2, nstmts,
                   error, generateCalls, report, input, output>>

\* codegen.generate(callback), after the forEach
Generate ==
    /\ pc = "loop"
    /\ idx > Len(files)
    /\ generateCalls' = generateCalls + 1
    /\ pc' = "generate"
    /\ UNCHANGED <<files, force, artifacts, fileCache, persisted, writes, idx, units, sources,
                   toplevel, ast2, nstmts, last, error, report, input, output>>

\* the callback writing the table whether or not a file is passed
GenerateCallbackAlwaysWrites ==
    /\ pc = "generate"
    /\ \E err \in BOOLEAN, file \in BOOLEAN :
         /\ report' = [err |-> err, file |-> file]
         /\ IF err
            THEN /\ LogError(Throw("Error", "backend", ""))
                 /\ UNCHANGED <<persisted, writes>>
            ELSE /\ persisted' = fileCache
                 /\ writes' = writes + 1
                 /\ pc' = "exit(0)"
                 /\ UNCHANGED error
    /\ UNCHANGED <<files, force, artifacts, fileCache, idx, units, sources, toplevel, ast2,
                   nstmts, last, generateCalls, input, output>>

\* the callback given to codegen.generate, with what the backend reports
GenerateCallback ==
    /\ pc = "generate"
    /\ \E err \in BOOLEAN, file \in BOOLEAN :
         /\ report' = [err |-> err, file |-> file]
         /\ IF err
            THEN /\ LogError(Throw("Error", "backend", ""))
                 /\ UNCHANGED <<persisted, writes>>
            ELSE /\ IF file
                    THEN persisted' = fileCache /\ writes' = writes + 1
                    ELSE UNCHANGED <<persisted, writes>>
                 /\ pc' = "exit(0)"
                 /\ UNCHANGED error
    /\ UNCHANGED <<files, force, artifacts, fileCache, idx, units, sources, toplevel, ast2,
                   nstmts, last, generateCalls, input, output>>

Next ==
    \/ CacheHit
    \/ Parse
    \/ TransformStmt
    \/ TransformThrows
    \/ Finish
    \/ Generate
    \/ GenerateCallback

Spec == Init /\ [][Next]_vars

\* one file, every kind of statement
InitRewrite ==
    InitRun({<<[filename |-> "/a-b.js", source |-> "s1"]>>}, {FALSE}, StoredCaches, {Names})

NextRewrite ==
    \/ CacheHit
    \/ ParseAny
    \/ RewriteStmt
    \/ RewriteThrows
    \/ Finish
    \/ Generate
    \/ GenerateCallback

SpecRewrite == InitRewrite /\ [][NextRewrite]_vars

----------------------------------------------------------------------------
(* The evaluator on its own: toValue applied to one value node.             *)

Literals ==
    {StringNode("a"), StringNode(""), NumberNode(10), NumberNode(0), TrueNode, FalseNode, NullNode}

\* what an array or an object may hold: literals, a bound identifier, an
\* array and an object
Elements == Literals \cup {SymbolRef("w", ToplevelW), ArrayNode(<<NumberNode(10)>>), FooBar}

ValueNodes ==
    Literals
    \cup {ArrayNode(<<>>)}
    \cup {ArrayNode(<<e>>) : e \in Elements}
    \cup {ArrayNode(<<e, f>>) : e \in Elements, f \in {StringNode("a"), NumberNode(0)}}
    \cup {ObjectNode(<<KeyVal("k", e)>>) : e \in Elements}
    \cup {ObjectNode(<<KeyVal("k", e), KeyVal(j, NumberNode(10))>>) :
            e \in {StringNode("a"), NumberNode(0)}, j \in {"k", "j"}}
    \cup {ObjectNode(<<KeyVal("k", ArrayNode(<<e>>))>>) : e \in Elements}

InitEval ==
    /\ pc = "eval"
    /\ files = <<>>
    /\ force = FALSE
    /\ artifacts = {}
    /\ fileCache = [n \in Names |-> NoEntry]
    /\ persisted = fileCache
    /\ writes = 0
    /\ idx = 1
    /\ units = <<>>
    /\ sources = <<>>
    /\ toplevel = ToplevelW
    /\ ast2 = <<>>
    /\ nstmts = 0
    /\ last = NoLast
    /\ error = Undefined
    /\ generateCalls = 0
    /\ report = NoReport
    /\ \E v \in ValueNodes, m \in MarkerNames \ {"native"} :
         input = [value |-> v, node |-> SimpleStatement(Call(m, <<v>>, ToplevelW))]
    /\ output = Pending

\* toValue(arg, node), as the marker cases of the visitor call it
Evaluate ==
    /\ pc = "eval"
    /\ output = Pending
    /\ output' = toValue(input.value, input.node)
    /\ pc' = "evaluated"
    /\ UNCHANGED <<files, force, artifacts, fileCache, persisted, writes, idx, units, sources,
                   toplevel, ast2, nstmts, last, error, generateCalls, report, input>>

NextEval == Evaluate

SpecEval == InitEval /\ [][NextEval]_vars

----------------------------------------------------------------------------
(* What the claims speak of.                                                *)

\* a transform step has just taken a statement of the file at idx
Stepped == last.stmt # NoNode
\* the step returned: the statement as it now stands in the rewritten tree
Rewritten == ast2[Len(ast2)]
\* the statement taken is a call at statement position
CallStmt == Stepped /\ last.stmt.body.TYPE = "Call"
NewStmt == Stepped /\ last.stmt.body.TYPE = "New"
Callee == last.stmt.body.expression.name
CalleeBound == find_variable(last.stmt.body.expression.scope, Callee) # NotFound
Args == last.stmt.body.args

\* the five declaration lists of a unit, by marker name
DeclList(sf, marker) ==
    CASE marker = "package" -> sf.packageDecl
      [] marker = "class" -> sf.classDecls
      [] marker = "static" -> sf.staticDecls
      [] marker = "native" -> sf.nativeDecls
      [] marker = "import" -> sf.importDecls

SameDecls(sf, before, markers) == \A m \in markers : DeclList(sf, m) = DeclList(before, m)

\* C1: a statement-position call to package, class, static, native or import
\* whose callee is bound in scope records no declaration and stays in the
\* rewritten tree as it was.
C1_ShadowedMarkerUntouched ==
    (CallStmt /\ Callee \in MarkerNames /\ CalleeBound)
        => /\ pc = "transform"
           /\ SameDecls(units[idx], last.before, MarkerNames)
           /\ Rewritten = last.stmt

RECURSIVE LiteralShaped(_)
\* a value node built from literals, arrays and objects only
LiteralShaped(v) ==
    CASE v.TYPE \in {"String", "Number", "True", "False", "Null"} -> TRUE
      [] v.TYPE = "Array" -> \A i \in 1..Len(v.elements) : LiteralShaped(v.elements[i])
      [] v.TYPE = "Object" -> \A i \in 1..Len(v.properties) : LiteralShaped(v.properties[i].value)
      [] OTHER -> FALSE

RECURSIVE Resolved(_)
RECURSIVE ResolvedObject(_, _, _)
ResolvedObject(properties, i, obj) ==
    IF i > Len(properties) THEN Obj(obj)
    ELSE ResolvedObject(properties, i + 1, ObjSet(obj, properties[i].key, Resolved(properties[i].value)))

\* the value the evaluator's contract gives a value node: a literal is its
\* value, an array the sequence of its resolved elements, an object the mapping
\* of its keys to their resolved values, an identifier its resolved initializer
Resolved(v) ==
    CASE v.TYPE \in {"String", "Number", "True", "False", "Null"} -> v.value
      [] v.TYPE = "Array" -> Arr([i \in 1..Len(v.elements) |-> Resolved(v.elements[i])])
      [] v.TYPE = "Object" -> ResolvedObject(v.properties, 1, <<>>)
      [] v.TYPE = "SymbolRef" -> Resolved(find_variable(v.scope, v.name).init)
      [] OTHER -> Undefined

\* C2: a statement-position call to an unshadowed marker with at least one
\* argument records exactly one entry, the resolved first argument (a mapping
\* for native), in the list of that marker, leaves the other lists alone, and
\* is replaced by an empty statement.  Stated for arguments built from
\* literals, arrays and objects, which always resolve.
C2_MarkerRecordedAndRemoved ==
    (CallStmt /\ Callee \in MarkerNames /\ ~CalleeBound /\ Len(Args) >= 1 /\ LiteralShaped(Args[1]))
        => /\ pc = "transform"
           /\ Rewritten = EmptyStatement
           /\ SameDecls(units[idx], last.before, MarkerNames \ {Callee})
           /\ LET list == DeclList(units[idx], Callee)
                  entry == list[Len(list)]
              IN /\ Len(list) >= 1
                 /\ Callee # "package" => list = Append(DeclList(last.before, Callee), entry)
                 /\ Callee # "native" => entry = Resolved(Args[1])
                 /\ Callee = "native" => entry.t = "object"
                 /\ (Callee = "native" /\ Args[1].TYPE = "Object") => entry = Resolved(Args[1])

\* C6: a call whose callee has no binding and is not one of the five reserved
\* words records exactly one callSites entry and is replaced by the
\* placeholder symbol(arg1,...,argN) holding the argument texts in order (an
\* argument that is itself such a call reads as its own placeholder).
C6_UnboundCallRewritten ==
    (CallStmt /\ Callee \notin MarkerNames /\ ~CalleeBound)
        => /\ pc = "transform"
           /\ LET sites == units[idx].callSites
                  site == sites[Len(sites)]
                  texts == Texts(TransformList(Args, 1, <<>>, last.before).nodes, 1)
              IN /\ Len(sites) >= 1
                 /\ Cardinality({i \in 1..Len(sites) : sites[i].symbol = site.symbol}) = 1
                 /\ site.name = Callee
                 /\ site.args = texts
                 /\ Rewritten = SimpleStatement(SymbolConst(site.symbol \o "(" \o Join(texts, 1) \o ")"))

RECURSIVE UnboundNews(_)
RECURSIVE UnboundNewsIn(_, _)
UnboundNewsIn(nodes, i) ==
    IF i > Len(nodes) THEN 0 ELSE UnboundNews(nodes[i]) + UnboundNewsIn(nodes, i + 1)

\* how many new Name(...) with an unbound Name a node holds
UnboundNews(node) ==
    CASE node.TYPE = "New" ->
            (IF find_variable(node.expression.scope, node.expression.name) = NotFound THEN 1 ELSE 0)
            + UnboundNewsIn(node.args, 1)
      [] node.TYPE = "Call" -> UnboundNewsIn(node.args, 1)
      [] node.TYPE = "Assign" -> UnboundNews(node.right)
      [] node.TYPE = "SimpleStatement" -> UnboundNews(node.body)
      [] OTHER -> 0

\* C7: every new Name(...) with an unbound Name records one instantiation,
\* evaluates no argument and is replaced by symbol(); the symbols of a unit are
\* pairwise distinct; a new Name(...) with a bound Name is left unchanged.
C7_ConstructorRewritten ==
    Stepped =>
        LET made == units[idx].instantiations
        IN /\ Len(made) = Len(last.before.instantiations) + UnboundNews(last.stmt)
           /\ \A i, j \in 1..Len(made) : i # j => made[i].symbol # made[j].symbol
           /\ (NewStmt /\ ~CalleeBound) =>
                 /\ pc = "transform"
                 /\ SameDecls(units[idx], last.before, MarkerNames)
                 /\ made[Len(made)].name = Callee
                 /\ Rewritten = SimpleStatement(SymbolConst(made[Len(made)].symbol \o "()"))
           /\ (NewStmt /\ CalleeBound) =>
                 /\ pc = "transform"
                 /\ SameDecls(units[idx], last.before, MarkerNames)
                 /\ Rewritten = last.stmt

\* the identifiers of a binary expression over literals and identifiers
Identifiers(b) == {o \in {b.left, b.right} : o.TYPE = "SymbolRef"}
\* an identifier bound to a value somewhere along its scope chain
BoundToValue(o) == find_variable(o.scope, o.name).init # NoNode

\* C8: a marker whose first argument is a binary expression over literals and
\* identifiers records the value of the expression when every identifier is
\* bound to a value along the scope chain, and otherwise fails with an error
\* that names an unbound identifier.
C8_BinaryArgumentResolved ==
    (CallStmt /\ Callee \in MarkerNames \ {"native"} /\ ~CalleeBound
        /\ Len(Args) >= 1 /\ Args[1].TYPE = "Binary")
        => IF \A o \in Identifiers(Args[1]) : BoundToValue(o)
           THEN /\ pc = "transform"
                /\ LET list == DeclList(units[idx], Callee)
                   IN /\ Len(list) >= 1
                      /\ list[Len(list)] =
                            JsBinary(Args[1].operator, Resolved(Args[1].left), Resolved(Args[1].right))
           ELSE /\ pc = "exit(1)"
                /\ \E o \in Identifiers(Args[1]) : ~BoundToValue(o) /\ error.name = o.name

\* C10: toValue on a value node built from literals, arrays and objects gives
\* the structural result: literals unchanged (0, "" and false included), arrays
\* and objects with every element and value resolved.
C10_ToValueStructural ==
    output # Pending => output = Resolved(input.value)

----------------------------------------------------------------------------
(* The driver.                                                              *)

\* the unit of file i is reused from the cache, or rewritten and finished
Terminal(i) == units[i] # NoUnit /\ (units[i].cached \/ units[i].finished)
Recompiled(i) == units[i] # NoUnit /\ ~units[i].cached /\ units[i].finished

\* the file at idx is taken as a cache hit: no transform, the stored unit
\* marked cached and handed to the backend, the table left as it is
TakenAsHit(entry) ==
    /\ pc' = "loop"
    /\ idx' = idx + 1
    /\ units'[idx] = [entry.sourcefile EXCEPT !.filename = RelativeOf(idx),
                                              !.name = NameOfFile(idx), !.cached = TRUE]
    /\ sources' = Append(sources, idx)
    /\ fileCache' = fileCache

\* the file at idx is reprocessed: a fresh unit goes to the transformer
TakenAsMiss ==
    /\ pc' = "transform"
    /\ units'[idx] = SourceFile(RelativeOf(idx), NameOfFile(idx))
    /\ fileCache' = fileCache

\* a file is a cache hit iff match holds of it, and the entry of a
\* reprocessed file is replaced when its rewrite completes
HitIff(match) ==
    /\ (pc = "loop" /\ idx <= Len(files)) =>
          IF match THEN TakenAsHit(fileCache[NameOfFile(idx)]) ELSE TakenAsMiss
    /\ (pc = "transform" /\ pc' = "loop") =>
          /\ units'[idx].finished
          /\ fileCache' = [fileCache EXCEPT ![NameOfFile(idx)] = CacheEntry(HashOf(idx), units'[idx])]

\* an entry exists for the file at idx, its hash is the hash of the file's
\* content and the deserialized unit is cacheable
Matches ==
    /\ fileCache[NameOfFile(idx)] # NoEntry
    /\ fileCache[NameOfFile(idx)].sourceHash = sourceHash(files[idx].source)
    /\ NameOfFile(idx) \in artifacts

\* C3 as stated: a file is a cache hit iff its entry exists, the hashes are
\* equal and isCacheable holds.
C3_HitIffMatch == [][HitIff(Matches)]_vars

\* C3 amended: a file is a cache hit iff the force option is off, its entry
\* exists, the hashes are equal and isCacheable holds; a file that is not a hit
\* is reprocessed and its entry replaced once the rewrite completes.
C3_HitIffUnforcedMatch == [][HitIff(~force /\ Matches)]_vars

\* a hit was taken, and a file whose stored hash matched but whose artifacts
\* are gone was reprocessed and its entry replaced
C3_Witness ==
    /\ ~force
    /\ writes = 0
    /\ \E i \in 1..Len(files) : units[i] # NoUnit /\ units[i].cached
    /\ \E i \in 1..Len(files) :
          /\ Recompiled(i)
          /\ persisted[jsfilename(RelativeFilename(files[i].filename))] # NoEntry
          /\ persisted[jsfilename(RelativeFilename(files[i].filename))].sourceHash = sourceHash(files[i].source)
          /\ fileCache[jsfilename(RelativeFilename(files[i].filename))].sourcefile = units[i]

\* C4 as stated: the table is written at most once, at the end, and only if
\* some file of the run was recompiled.
C4_WriteOnlyIfRecompiled ==
    /\ writes <= 1
    /\ writes = 1 => pc = "exit(0)" /\ \E i \in 1..Len(files) : Recompiled(i)

\* C4 amended: the table is written at most once, in the generate callback at
\* the end of the run, and only if the backend passes a file; it is written
\* whenever the backend passes a file and no error, recompiled file or not.
C4_WriteIffBackendPassesFile ==
    /\ writes <= 1
    /\ writes = 1 => /\ pc = "exit(0)"
                     /\ idx > Len(files)
                     /\ report # NoReport
                     /\ report.file
                     /\ persisted = fileCache
    /\ (report # NoReport /\ report.file /\ ~report.err) => writes = 1
    /\ (report # NoReport /\ ~report.file) => writes = 0

\* every file was a hit and the table was written all the same
C4_Witness ==
    /\ writes = 1
    /\ \A i \in 1..Len(files) : units[i] # NoUnit /\ units[i].cached

C9_EvaluatorFailureAborts ==
    [][/\ (pc = "transform" /\ last' # last /\ last' # NoLast
              /\ ~transform(last'.stmt, units[idx]).ok)
          => /\ pc' = "exit(1)"
             /\ error' = transform(last'.stmt, units[idx]).error
             /\ units' = units
             /\ ~units'[idx].finished
             /\ fileCache' = fileCache
             /\ idx' = idx
             /\ generateCalls' = 0
             /\ writes' = 0
             /\ persisted' = persisted
       /\ pc = "exit(1)" => UNCHANGED vars]_vars

\* the evaluator threw on a marker of a file that is not the last of the run
C9_Witness ==
    /\ pc = "exit(1)"
    /\ Stepped
    /\ last.stmt.body.expression.name \in MarkerNames
    /\ error.t = "throw"
    /\ idx < Len(files)
    /\ generateCalls = 0

====
